---------------------------- MODULE Spec2Model ----------------------------
(* A model of the toy compiler front end: the Lexer (src/src/lexer.cpp),  *)
(* the recursive-descent Parser (src/src/parsers.cpp) and the driver      *)
(* (src/src/main.cpp).  A source text is a sequence of one-character      *)
(* strings; std::string positions are 0-based, TLA+ sequences 1-based.    *)
EXTENDS Integers, Sequences, FiniteSets, TLC

\* ------------------------------------------------------------------ bounds
\* longest source built from every character of the alphabet
MaxLen == 3
\* most numerals in a generated source n1 op1 n2 ... nk
MaxOperands == 2

\* ------------------------------------------------------- program constants
\* std::numeric_limits<int>::max() and min(): NumberExpr::value is an int
INT_MAX == 2147483647
INT_MIN == (-2147483647) - 1

\* ------------------------------------------------------------- <cctype>
Digits == {"0", "1", "2", "3", "4", "5", "6", "7", "8", "9"}
Letters ==
  {"a", "b", "c", "d", "e", "f", "g", "h", "i", "j", "k", "l", "m",
   "n", "o", "p", "q", "r", "s", "t", "u", "v", "w", "x", "y", "z",
   "A", "B", "C", "D", "E", "F", "G", "H", "I", "J", "K", "L", "M",
   "N", "O", "P", "Q", "R", "S", "T", "U", "V", "W", "X", "Y", "Z"}
\* the terminating '\0' that std::string::operator[] yields at index size()
NUL == "NUL"

isspace(c) == c \in {" ", "\t", "\n", "\r", "\f"}
isdigit(c) == c \in Digits
isalpha(c) == c \in Letters
isalnum(c) == isalpha(c) \/ isdigit(c)

DigitVal(c) ==
  CASE c = "0" -> 0 [] c = "1" -> 1 [] c = "2" -> 2 [] c = "3" -> 3
    [] c = "4" -> 4 [] c = "5" -> 5 [] c = "6" -> 6 [] c = "7" -> 7
    [] c = "8" -> 8 [] c = "9" -> 9

\* source[p] for 0 <= p <= source.length()
CharAt(src, p) == IF p < Len(src) THEN src[p + 1] ELSE NUL

\* ------------------------------------------------------------- the Lexer
TokenType ==
  {"INT", "RETURN", "IF", "ELSE", "WHILE", "IDENTIFIER", "NUMBER",
   "OPERATOR", "PAREN_OPEN", "PAREN_CLOSE", "BRACE_OPEN", "BRACE_CLOSE",
   "SEMICOLON", "END"}

Token(t, v) == [type |-> t, value |-> v]

\* while (pos < source.length() && isspace(source[pos])) pos++;
RECURSIVE SkipWhitespace(_, _)
SkipWhitespace(src, p) ==
  IF p < Len(src) /\ isspace(src[p + 1]) THEN SkipWhitespace(src, p + 1) ELSE p

\* variant: an if in place of the while, one digit per token
ScanOneDigit(src, p) == IF isdigit(CharAt(src, p)) THEN p + 1 ELSE p

\* while (isdigit(source[pos])) num += source[pos++];   -- the final pos
RECURSIVE ScanDigits(_, _)
ScanDigits(src, p) ==
  IF isdigit(CharAt(src, p)) THEN ScanDigits(src, p + 1) ELSE p

\* variant: isalpha in place of isalnum
RECURSIVE ScanAlpha(_, _)
ScanAlpha(src, p) ==
  IF isalpha(CharAt(src, p)) THEN ScanAlpha(src, p + 1) ELSE p

\* while (isalnum(source[pos])) ident += source[pos++];  -- the final pos
RECURSIVE ScanAlnum(_, _)
ScanAlnum(src, p) ==
  IF isalnum(CharAt(src, p)) THEN ScanAlnum(src, p + 1) ELSE p

\* the characters source[from .. to-1]
Text(src, from, to) == SubSeq(src, from + 1, to)

\* variant: a keyword table that also holds if, else and while
KeywordTypeAll(ident) ==
  IF ident = <<"i", "n", "t">> THEN "INT"
  ELSE IF ident = <<"r", "e", "t", "u", "r", "n">> THEN "RETURN"
  ELSE IF ident = <<"i", "f">> THEN "IF"
  ELSE IF ident = <<"e", "l", "s", "e">> THEN "ELSE"
  ELSE IF ident = <<"w", "h", "i", "l", "e">> THEN "WHILE"
  ELSE "IDENTIFIER"

KeywordType(ident) ==
  IF ident = <<"i", "n", "t">> THEN "INT"
  ELSE IF ident = <<"r", "e", "t", "u", "r", "n">> THEN "RETURN"
  ELSE "IDENTIFIER"

\* variant: an unrecognized character is stepped over
SymbolTokenSkipsUnknown(src, q) ==
  LET current == CharAt(src, q) IN
  IF current \in {"+", "-", "*", "/"}
    THEN [tok |-> Token("OPERATOR", <<current>>), pos |-> q + 1]
  ELSE IF current = "(" THEN [tok |-> Token("PAREN_OPEN", <<"(">>), pos |-> q]
  ELSE IF current = ")" THEN [tok |-> Token("PAREN_CLOSE", <<")">>), pos |-> q]
  ELSE IF current = "{" THEN [tok |-> Token("BRACE_OPEN", <<"{">>), pos |-> q]
  ELSE IF current = "}" THEN [tok |-> Token("BRACE_CLOSE", <<"}">>), pos |-> q]
  ELSE IF current = ";" THEN [tok |-> Token("SEMICOLON", <<";">>), pos |-> q]
  ELSE [tok |-> Token("END", <<>>), pos |-> q + 1]

\* variant: the case label for '-' is missing and ')' repeats the '(' token
SymbolTokenMislabelled(src, q) ==
  LET current == CharAt(src, q) IN
  IF current \in {"+", "*", "/"}
    THEN [tok |-> Token("OPERATOR", <<current>>), pos |-> q + 1]
  ELSE IF current = "(" THEN [tok |-> Token("PAREN_OPEN", <<"(">>), pos |-> q]
  ELSE IF current = ")" THEN [tok |-> Token("PAREN_OPEN", <<"(">>), pos |-> q]
  ELSE IF current = "{" THEN [tok |-> Token("BRACE_OPEN", <<"{">>), pos |-> q]
  ELSE IF current = "}" THEN [tok |-> Token("BRACE_CLOSE", <<"}">>), pos |-> q]
  ELSE IF current = ";" THEN [tok |-> Token("SEMICOLON", <<";">>), pos |-> q]
  ELSE [tok |-> Token("END", <<>>), pos |-> q]

\* variant: the operator case returns before its pos++ as the others do
SymbolTokenOperatorStays(src, q) ==
  LET current == CharAt(src, q) IN
  IF current \in {"+", "-", "*", "/"}
    THEN [tok |-> Token("OPERATOR", <<current>>), pos |-> q]
  ELSE IF current = "(" THEN [tok |-> Token("PAREN_OPEN", <<"(">>), pos |-> q]
  ELSE IF current = ")" THEN [tok |-> Token("PAREN_CLOSE", <<")">>), pos |-> q]
  ELSE IF current = "{" THEN [tok |-> Token("BRACE_OPEN", <<"{">>), pos |-> q]
  ELSE IF current = "}" THEN [tok |-> Token("BRACE_CLOSE", <<"}">>), pos |-> q]
  ELSE IF current = ";" THEN [tok |-> Token("SEMICOLON", <<";">>), pos |-> q]
  ELSE [tok |-> Token("END", <<>>), pos |-> q]

\* the switch on the current character: the operator case post-increments
\* pos, the five others return before their pos++ statement is reached
SymbolToken(src, q) ==
  LET current == CharAt(src, q) IN
  IF current \in {"+", "-", "*", "/"}
    THEN [tok |-> Token("OPERATOR", <<current>>), pos |-> q + 1]
  ELSE IF current = "(" THEN [tok |-> Token("PAREN_OPEN", <<"(">>), pos |-> q]
  ELSE IF current = ")" THEN [tok |-> Token("PAREN_CLOSE", <<")">>), pos |-> q]
  ELSE IF current = "{" THEN [tok |-> Token("BRACE_OPEN", <<"{">>), pos |-> q]
  ELSE IF current = "}" THEN [tok |-> Token("BRACE_CLOSE", <<"}">>), pos |-> q]
  ELSE IF current = ";" THEN [tok |-> Token("SEMICOLON", <<";">>), pos |-> q]
  ELSE [tok |-> Token("END", <<>>), pos |-> q]

\* Lexer::getNextToken on a lexer at position p: the token and the new pos
getNextToken(src, p) ==
  LET q == SkipWhitespace(src, p) IN
  IF q >= Len(src) THEN [tok |-> Token("END", <<>>), pos |-> q]
  ELSE LET current == CharAt(src, q) IN
    IF isdigit(current)
      THEN LET e == ScanDigits(src, q) IN
           [tok |-> Token("NUMBER", Text(src, q, e)), pos |-> e]
    ELSE IF isalpha(current)
      THEN LET e == ScanAlnum(src, q)
               ident == Text(src, q, e) IN
           [tok |-> Token(KeywordType(ident), ident), pos |-> e]
    ELSE SymbolToken(src, q)

\* ------------------------------------------------------------ std::stoi
\* digits [i, e) folded into the negated value; over when it leaves int
RECURSIVE NegAccum(_, _, _, _)
NegAccum(str, i, e, n) ==
  IF i >= e THEN [over |-> FALSE, n |-> n]
  ELSE LET d == DigitVal(CharAt(str, i)) IN
       IF n < (INT_MIN + d + 9) \div 10 THEN [over |-> TRUE, n |-> 0]
       ELSE NegAccum(str, i + 1, e, n * 10 - d)

\* variant: only the first digit is converted, as currentToken.value[0] - '0'
stoiFirstDigit(str) ==
  IF isdigit(CharAt(str, 0))
    THEN [status |-> "ok", value |-> DigitVal(CharAt(str, 0))]
    ELSE [status |-> "invalid_argument", value |-> 0]

\* variant: atoi in place of stoi, 0 when there is no digit
stoiLikeAtoi(str) ==
  LET i0 == SkipWhitespace(str, 0)
      neg == CharAt(str, i0) = "-"
      i1 == IF CharAt(str, i0) \in {"+", "-"} THEN i0 + 1 ELSE i0
      e == ScanDigits(str, i1)
      acc == NegAccum(str, i1, e, 0)
  IN IF e = i1 THEN [status |-> "ok", value |-> 0]
     ELSE IF acc.over \/ (~neg /\ acc.n = INT_MIN)
       THEN [status |-> "out_of_range", value |-> 0]
     ELSE [status |-> "ok", value |-> IF neg THEN acc.n ELSE 0 - acc.n]

\* std::stoi(str): skips leading white space, takes an optional sign and the
\* longest run of digits; throws std::invalid_argument when there is no
\* digit and std::out_of_range when the value does not fit an int
stoi(str) ==
  LET i0 == SkipWhitespace(str, 0)
      neg == CharAt(str, i0) = "-"
      i1 == IF CharAt(str, i0) \in {"+", "-"} THEN i0 + 1 ELSE i0
      e == ScanDigits(str, i1)
      acc == NegAccum(str, i1, e, 0)
  IN IF e = i1 THEN [status |-> "invalid_argument", value |-> 0]
     ELSE IF acc.over \/ (~neg /\ acc.n = INT_MIN)
       THEN [status |-> "out_of_range", value |-> 0]
     ELSE [status |-> "ok", value |-> IF neg THEN acc.n ELSE 0 - acc.n]

\* the spec's MalformedExpression condition is the exception that the
\* numeric conversion of a non-numeric token value throws
MalformedExpression == "invalid_argument"

\* ---------------------------------------------------------------- the AST
NoNode == [kind |-> "nullptr"]
NumberExpr(val) == [kind |-> "NumberExpr", value |-> val]
BinaryExpr(l, o, r) == [kind |-> "BinaryExpr", left |-> l, op |-> o, right |-> r]
IfStatement(c, t, e) ==
  [kind |-> "IfStatement", condition |-> c, thenBranch |-> t, elseBranch |-> e]
WhileStatement(c, b) == [kind |-> "WhileStatement", condition |-> c, body |-> b]

\* ------------------------------------------------------------- the Parser
\* the outcome of a parse method: status is "ok" or the exception thrown,
\* node the returned tree, pos and cur the lexer position and currentToken
\* it leaves behind, calls the getNextToken calls it made and entries the
\* currentToken at each entry of parseExpression, outermost first.  The
\* outcome of a nested call is bound once, as the code holds it in a local
Thrown(st, p, cur, calls, entries) ==
  [status |-> st, node |-> NoNode, pos |-> p, cur |-> cur,
   calls |-> calls, entries |-> entries]

\* the value of an expression that has exactly one value
Only(S) == CHOOSE x \in S : TRUE

\* variant: the operands are handed to BinaryExpr in the wrong order
BinaryResultSwapped(cur, left, op, right) ==
  IF right.status # "ok"
    THEN Thrown(right.status, right.pos, right.cur, right.calls + 2,
                <<cur>> \o right.entries)
    ELSE [status |-> "ok", node |-> BinaryExpr(right.node, op, left),
          pos |-> right.pos, cur |-> right.cur, calls |-> right.calls + 2,
          entries |-> <<cur>> \o right.entries]

\* variant: the exception of the right operand is swallowed and the node is
\* returned without its right child
BinaryResultPartial(cur, left, op, right) ==
  [status |-> "ok",
   node |-> BinaryExpr(left, op,
                       IF right.status = "ok" THEN right.node ELSE NoNode),
   pos |-> right.pos, cur |-> right.cur, calls |-> right.calls + 2,
   entries |-> <<cur>> \o right.entries]

\* parseExpression entered with cur, once the recursive call for the right
\* operand has ended as right: its exception goes on to the caller,
\* otherwise return make_unique<BinaryExpr>(left, op, right)
BinaryResult(cur, left, op, right) ==
  IF right.status # "ok"
    THEN Thrown(right.status, right.pos, right.cur, right.calls + 2,
                <<cur>> \o right.entries)
    ELSE [status |-> "ok", node |-> BinaryExpr(left, op, right.node),
          pos |-> right.pos, cur |-> right.cur, calls |-> right.calls + 2,
          entries |-> <<cur>> \o right.entries]

\* variant: a token that is not a number is stepped over before the failure
RECURSIVE parseExpressionSkipsBadToken(_, _, _)
parseExpressionSkipsBadToken(src, p, cur) ==
  LET conv == stoi(cur.value) IN
  IF conv.status # "ok"
    THEN Only({Thrown(conv.status, t.pos, t.tok, 1, <<cur>>) :
                 t \in {getNextToken(src, p)}})
  ELSE
    LET left == NumberExpr(conv.value)
        t1 == getNextToken(src, p)
    IN IF t1.tok.type = "OPERATOR"
         THEN LET op == t1.tok.value[1]
                  t2 == getNextToken(src, t1.pos)
              IN Only({BinaryResult(cur, left, op, right) :
                         right \in {parseExpressionSkipsBadToken(src, t2.pos, t2.tok)}})
         ELSE [status |-> "ok", node |-> left, pos |-> t1.pos,
               cur |-> t1.tok, calls |-> 1, entries |-> <<cur>>]

\* variant: a second token is pulled when no operator follows the number
RECURSIVE parseExpressionOverreads(_, _, _)
parseExpressionOverreads(src, p, cur) ==
  LET conv == stoi(cur.value) IN
  IF conv.status # "ok" THEN Thrown(conv.status, p, cur, 0, <<cur>>)
  ELSE
    LET left == NumberExpr(conv.value)
        t1 == getNextToken(src, p)
    IN IF t1.tok.type = "OPERATOR"
         THEN LET op == t1.tok.value[1]
                  t2 == getNextToken(src, t1.pos)
              IN Only({BinaryResult(cur, left, op, right) :
                         right \in {parseExpressionOverreads(src, t2.pos, t2.tok)}})
         ELSE LET t3 == getNextToken(src, t1.pos) IN
              [status |-> "ok", node |-> left, pos |-> t3.pos,
               cur |-> t3.tok, calls |-> 2, entries |-> <<cur>>]

\* Parser::parseExpression with the lexer at p and currentToken = cur
RECURSIVE parseExpression(_, _, _)
parseExpression(src, p, cur) ==
  LET conv == stoi(cur.value) IN
  IF conv.status # "ok" THEN Thrown(conv.status, p, cur, 0, <<cur>>)
  ELSE
    LET left == NumberExpr(conv.value)
        t1 == getNextToken(src, p)
    IN IF t1.tok.type = "OPERATOR"
         THEN LET op == t1.tok.value[1]
                  t2 == getNextToken(src, t1.pos)
              IN Only({BinaryResult(cur, left, op, right) :
                         right \in {parseExpression(src, t2.pos, t2.tok)}})
         ELSE [status |-> "ok", node |-> left, pos |-> t1.pos,
               cur |-> t1.tok, calls |-> 1, entries |-> <<cur>>]

\* parseIfStatement from the test for an else part on
IfElsePart(src, condition, thenBranch, elseBranch) ==
  LET n == condition.calls + thenBranch.calls + elseBranch.calls + 3
      e == condition.entries \o thenBranch.entries \o elseBranch.entries
  IN IF elseBranch.status # "ok"
       THEN Thrown(elseBranch.status, elseBranch.pos, elseBranch.cur, n, e)
       ELSE [status |-> "ok",
             node |-> IfStatement(condition.node, thenBranch.node,
                                  elseBranch.node),
             pos |-> elseBranch.pos, cur |-> elseBranch.cur,
             calls |-> n, entries |-> e]

\* parseIfStatement once the then branch has been parsed
IfThenPart(src, condition, thenBranch) ==
  LET n == condition.calls + thenBranch.calls + 2
      e == condition.entries \o thenBranch.entries
  IN IF thenBranch.status # "ok"
       THEN Thrown(thenBranch.status, thenBranch.pos, thenBranch.cur, n, e)
     ELSE IF thenBranch.cur.type = "ELSE"
       THEN LET t2 == getNextToken(src, thenBranch.pos) IN
            Only({IfElsePart(src, condition, thenBranch, elseBranch) :
                    elseBranch \in {parseExpression(src, t2.pos, t2.tok)}})
     ELSE [status |-> "ok",
           node |-> IfStatement(condition.node, thenBranch.node, NoNode),
           pos |-> thenBranch.pos, cur |-> thenBranch.cur,
           calls |-> n, entries |-> e]

\* parseIfStatement once the condition has been parsed
IfConditionPart(src, condition) ==
  IF condition.status # "ok"
    THEN Thrown(condition.status, condition.pos, condition.cur,
                condition.calls + 1, condition.entries)
    ELSE LET t1 == getNextToken(src, condition.pos) IN
         Only({IfThenPart(src, condition, thenBranch) :
                 thenBranch \in {parseExpression(src, t1.pos, t1.tok)}})

\* Parser::parseIfStatement
parseIfStatement(src, p, cur) ==
  LET t0 == getNextToken(src, p) IN
  Only({IfConditionPart(src, condition) :
          condition \in {parseExpression(src, t0.pos, t0.tok)}})

\* parseWhileStatement once the body has been parsed
WhileBodyPart(condition, body) ==
  LET n == condition.calls + body.calls + 2
      e == condition.entries \o body.entries
  IN IF body.status # "ok" THEN Thrown(body.status, body.pos, body.cur, n, e)
     ELSE [status |-> "ok",
           node |-> WhileStatement(condition.node, body.node),
           pos |-> body.pos, cur |-> body.cur, calls |-> n, entries |-> e]

\* parseWhileStatement once the condition has been parsed
WhileConditionPart(src, condition) ==
  IF condition.status # "ok"
    THEN Thrown(condition.status, condition.pos, condition.cur,
                condition.calls + 1, condition.entries)
    ELSE LET t1 == getNextToken(src, condition.pos) IN
         Only({WhileBodyPart(condition, body) :
                 body \in {parseExpression(src, t1.pos, t1.tok)}})

\* Parser::parseWhileStatement
parseWhileStatement(src, p, cur) ==
  LET t0 == getNextToken(src, p) IN
  Only({WhileConditionPart(src, condition) :
          condition \in {parseExpression(src, t0.pos, t0.tok)}})

\* ------------------------------------------------------ the lowering pass
\* IR values: an integer constant, the result of the instruction at a place
\* of the buffer, and the null value of a node without lowering
ConstantInt(v) == [kind |-> "constant", value |-> v]
InstValue(i) == [kind |-> "instruction", index |-> i]
NullValue == [kind |-> "null"]
AddInst(l, r) == [opcode |-> "add", lhs |-> l, rhs |-> r]

\* a BinaryExpr whose operands have been lowered as l and then r: one add
\* instruction is appended for '+', nothing for the other operators
EmitBinary(node, l, r) ==
  IF node.op = "+"
    THEN [value |-> InstValue(Len(r.buf) + 1),
          buf |-> Append(r.buf, AddInst(l.value, r.value))]
    ELSE [value |-> NullValue, buf |-> r.buf]

\* variant: the right operand is lowered before the left one
RECURSIVE generateRightFirst(_, _)
generateRightFirst(node, buf) ==
  IF node.kind = "NumberExpr"
    THEN [value |-> ConstantInt(node.value), buf |-> buf]
  ELSE IF node.kind = "BinaryExpr"
    THEN Only({Only({EmitBinary(node, l, [value |-> r.value, buf |-> l.buf]) :
                       l \in {generateRightFirst(node.left, r.buf)}}) :
                 r \in {generateRightFirst(node.right, buf)}})
  ELSE [value |-> NullValue, buf |-> buf]

\* CodeGen::generate(node) on a module whose instructions so far are buf:
\* the value returned and the instructions afterwards
RECURSIVE generate(_, _)
generate(node, buf) ==
  IF node.kind = "NumberExpr"
    THEN [value |-> ConstantInt(node.value), buf |-> buf]
  ELSE IF node.kind = "BinaryExpr"
    THEN Only({Only({EmitBinary(node, l, r) :
                       r \in {generate(node.right, l.buf)}}) :
                 l \in {generate(node.left, buf)}})
  ELSE [value |-> NullValue, buf |-> buf]

\* the trees a caller of generate can build from the AST constructors: the
\* numbers 5 and 3 under BinaryExpr nodes, nested on either side
RECURSIVE Trees(_)
Trees(depth) ==
  IF depth = 0 THEN {NumberExpr(5), NumberExpr(3)}
  ELSE LET smaller == Trees(depth - 1) IN
       smaller \cup {BinaryExpr(l, o, r) :
                       l \in smaller, o \in {"+", "-"}, r \in smaller}

\* ------------------------------------------------------------ source texts
\* every kind of character the lexer tells apart: digits, letters, white
\* space, the four operators, the five punctuation marks, and one other.
\* Source texts are ASCII, where the <cctype> classifications are defined
Operators == {"+", "-", "*", "/"}
Punctuation == {"(", ")", "{", "}", ";"}
Alphabet == {"0", "7", "i", "n", "t", " ", "@"} \cup Operators \cup Punctuation

RECURSIVE TextsUpTo(_)
TextsUpTo(n) ==
  IF n = 0 THEN {<<>>}
  ELSE LET shorter == TextsUpTo(n - 1) IN
       shorter \cup {Append(x, c) : x \in shorter, c \in Alphabet}

\* numerals with and without leading zeros, at and beyond the largest int
Numerals ==
  {<<"5">>, <<"0", "0", "7">>,
   <<"2", "1", "4", "7", "4", "8", "3", "6", "4", "7">>,
   <<"2", "1", "4", "7", "4", "8", "3", "6", "4", "8">>}

\* n1 op1 n2 ... nk for k <= n, the items separated by sep
RECURSIVE Chains(_, _)
Chains(sep, n) ==
  IF n = 1 THEN Numerals
  ELSE LET shorter == Chains(sep, n - 1) IN
       shorter \cup {x \o sep \o <<o>> \o sep \o y :
                       x \in shorter, o \in Operators, y \in Numerals}

\* the examples of the specification and the words of the keyword table
Samples ==
  {<<"5", " ", "+", " ", "3">>,
   <<"1", " ", "+", " ", "2", " ", "+", " ", "3">>,
   <<"1", " ", "-", " ", "2", " ", "*", " ", "3">>,
   <<"8", "/", "4", "/", "2">>,
   <<"(", " ", "5", " ", ")">>,
   <<"5", " ", "+">>,
   <<"5", " ", "3">>,
   <<"5", " ", ")", " ", "+", " ", "3">>,
   <<"i", "f", " ", "1", " ", "{", " ", "2">>,
   <<"w", "h", "i", "l", "e", " ", "1", " ", "{", " ", "2">>,
   <<"i", "f", " ", "1", " ", "2", " ", "3", " ", "e", "l", "s", "e", " ", "4">>,
   <<"i", "f">>,
   <<"i", "f", " ", "e", "l", "s", "e", " ", "w", "h", "i", "l", "e">>,
   <<"e", "l", "s", "e">>,
   <<"w", "h", "i", "l", "e">>,
   <<"r", "e", "t", "u", "r", "n">>,
   <<"r", "e", "t", "u", "r", "n", "s">>,
   <<"i", "n", "t", "e", "g", "e", "r">>,
   <<"i", "n", "t", "1">>,
   <<"i", "n", "t", " ", "x", "1", ";">>,
   <<"1", "2", " ", "3", "4">>,
   <<"x", " ", "1", " ", "+", " ", "2">>,
   <<"1", " ", "+", " ", "x">>,
   <<"1", " ", "@", " ", "2">>,
   <<"{", " ", "1", " ", "}">>,
   <<"r", "e", "t", "u", "r", "n", " ", "5", ";">>,
   <<"i", "f", " ", "1", " ", "+", " ", "2", " ", "x", " ", "3", " ", "*", " ", "4">>,
   <<"w", "h", "i", "l", "e", " ", "1", " ", "-", " ", "2", " ", "x", " ", "3">>,
   <<"i", "f", " ", "1", " ", "x", " ", "2">>,
   <<"w", "h", "i", "l", "e", " ", "1", " ", "x", " ", "2">>,
   <<"i", "f", " ", "1", " ", "2", " ", "3">>,
   <<"7", " ", "1", " ", "x", " ", "2">>,
   <<"w", "h", "i", "l", "e", " ", "1", " ", "2", " ", "3", " ", "/", " ", "5">>}

Sources ==
  TextsUpTo(MaxLen) \cup Chains(<<>>, MaxOperands)
    \cup Chains(<<" ">>, MaxOperands) \cup Samples


\* most direct getNextToken calls of a token-pulling caller
MaxCalls == 5
\* most calls of parse methods on one Parser
MaxParseCalls == 2
\* most generate calls on one CodeGen
MaxGenerate == 2
\* deepest tree handed to generate directly
MaxTreeDepth == 2
\* most parse method calls that are run step by step on one Parser
MaxRuns == 2
\* longest source text that is enumerated for the step-by-step runs
MaxStepLen == 2

\* the sources of the step-by-step runs: every short text, the examples,
\* and longer chains with punctuation and with a number beyond int
StepSources ==
  TextsUpTo(MaxStepLen) \cup Samples \cup
  {<<"1", "+", "2", "+", "3", "+", "4">>,
   <<"1", "+", "2", "1", "4", "7", "4", "8", "3", "6", "4", "8">>,
   <<"2", "1", "4", "7", "4", "8", "3", "6", "4", "8">>,
   <<"1", "+", "(", "2", ")">>,
   <<"x", " ", "1", "+", "2", " ", "(", " ", "3", "*", "4", ";">>,
   <<"x", " ", "1", " ", "y", " ", "2", "-", "3", "-", "4">>}

\* ------------------------------------------------------------------ state
VARIABLES
  source,        \* Lexer::source
  pos,           \* Lexer::pos
  calls,         \* getNextToken calls made on the lexer so far
  prevPos,       \* pos before the latest direct getNextToken call
  returned,      \* the tokens the direct getNextToken calls returned
  parser,        \* TRUE once a Parser has been constructed on the lexer
  currentToken,  \* Parser::currentToken
  nparse,        \* parse method calls made on the parser so far
  lastOp,        \* the latest parse method called
  startPos,      \* pos at the entry of that call
  startTok,      \* currentToken at the entry of that call
  outcome,       \* "ok" or the exception the call threw
  ast,           \* the tree the call returned
  entries,       \* currentToken at each entry of parseExpression in the call
  mainpc,        \* position of main()
  lowered,       \* main has run codeGen.generate
  printed,       \* main has run codeGen.printIR
  codegen,       \* TRUE once a CodeGen has been constructed
  ir,            \* the instructions in the CodeGen's module
  irValue,       \* the value the latest generate call returned
  ngen,          \* generate calls made on the CodeGen so far
  stack,         \* the frames of a parse method call that runs step by step
  entryLog,      \* pos, depth and operators consumed at each entry of the
                 \* parseExpression recursion that runs or ran last
  ops,           \* OPERATOR tokens that recursion has consumed
  startCalls     \* calls when the parse method call began

vars ==
  <<source, pos, calls, prevPos, returned, parser, currentToken, nparse,
    lastOp, startPos, startTok, outcome, ast, entries, mainpc, lowered,
    printed, codegen, ir, irValue, ngen, stack, entryLog, ops, startCalls>>

lexerVars == <<source, pos, calls, prevPos, returned>>
parserVars ==
  <<parser, currentToken, nparse, lastOp, startPos, startTok, outcome, ast,
    entries>>
mainVars == <<mainpc, lowered, printed>>
codegenVars == <<codegen, ir, irValue, ngen>>
stepVars == <<stack, entryLog, ops, startCalls>>

\* no token yet: nothing has been returned, no Parser exists
NoToken == Token("none", <<>>)

\* Lexer::Lexer(src) for any source text; nothing else is constructed
Init ==
  /\ source \in Sources
  /\ pos = 0
  /\ calls = 0
  /\ prevPos = 0
  /\ returned = <<>>
  /\ parser = FALSE
  /\ currentToken = NoToken
  /\ nparse = 0
  /\ lastOp = "none"
  /\ startPos = 0
  /\ startTok = NoToken
  /\ outcome = "none"
  /\ ast = NoNode
  /\ entries = <<>>
  /\ mainpc = "start"
  /\ lowered = FALSE
  /\ printed = FALSE
  /\ codegen = FALSE
  /\ ir = <<>>
  /\ irValue = NullValue
  /\ ngen = 0
  /\ stack = <<>>
  /\ entryLog = <<>>
  /\ ops = 0
  /\ startCalls = 0

\* a caller that has built a tree with the AST constructors, without Parser
InitCodeGen ==
  /\ source = <<>>
  /\ pos = 0
  /\ calls = 0
  /\ prevPos = 0
  /\ returned = <<>>
  /\ parser = FALSE
  /\ currentToken = NoToken
  /\ nparse = 0
  /\ lastOp = "none"
  /\ startPos = 0
  /\ startTok = NoToken
  /\ outcome = "none"
  /\ ast \in Trees(MaxTreeDepth)
  /\ entries = <<>>
  /\ mainpc = "start"
  /\ lowered = FALSE
  /\ printed = FALSE
  /\ codegen = FALSE
  /\ ir = <<>>
  /\ irValue = NullValue
  /\ ngen = 0
  /\ stack = <<>>
  /\ entryLog = <<>>
  /\ ops = 0
  /\ startCalls = 0

\* the token the latest direct getNextToken call returned
LastTok == IF returned = <<>> THEN NoToken ELSE returned[Len(returned)]

\* -------------------------------------------------- a token-pulling caller
\* one call lexer.getNextToken()
GetNextToken ==
  /\ calls < MaxCalls
  /\ LET r == getNextToken(source, pos) IN
       /\ pos' = r.pos
       /\ returned' = Append(returned, r.tok)
  /\ prevPos' = pos
  /\ calls' = calls + 1
  /\ UNCHANGED <<source, parserVars, mainVars, codegenVars, stepVars>>

\* ---------------------------------------------------- a caller of a Parser
\* Parser::Parser(lex)
ParserCtor ==
  /\ ~parser
  /\ parser' = TRUE
  /\ LET r == getNextToken(source, pos) IN
       /\ pos' = r.pos
       /\ currentToken' = r.tok
  /\ calls' = calls + 1
  /\ UNCHANGED <<source, prevPos, returned, nparse, lastOp, startPos, startTok,
                 outcome, ast, entries, mainVars, codegenVars, stepVars>>

\* the effect of one parse method call whose outcome is r
Parsed(name, r) ==
  /\ parser
  /\ nparse < MaxParseCalls
  /\ nparse' = nparse + 1
  /\ lastOp' = name
  /\ startPos' = pos
  /\ startTok' = currentToken
  /\ pos' = r.pos
  /\ currentToken' = r.cur
  /\ calls' = calls + r.calls
  /\ outcome' = r.status
  /\ ast' = r.node
  /\ entries' = r.entries
  /\ UNCHANGED <<source, prevPos, returned, parser, mainVars, codegenVars, stepVars>>

ParseExpression ==
  Parsed("parseExpression", parseExpression(source, pos, currentToken))

ParseIfStatement ==
  Parsed("parseIfStatement", parseIfStatement(source, pos, currentToken))

ParseWhileStatement ==
  Parsed("parseWhileStatement", parseWhileStatement(source, pos, currentToken))

\* ------------------------------------------------------------------ main()
\* the argument count and the opening of the file, then the file is read
MainStart ==
  /\ mainpc = "start"
  /\ \E argc \in {1, 2}, opened \in BOOLEAN :
       mainpc' = IF argc < 2 \/ ~opened THEN "exit1" ELSE "construct"
  /\ UNCHANGED <<lexerVars, parserVars, lowered, printed, codegenVars, stepVars>>

\* Lexer lexer(source); Parser parser(lexer);
MainConstruct ==
  /\ mainpc = "construct"
  /\ mainpc' = "parse"
  /\ parser' = TRUE
  /\ LET r == getNextToken(source, pos) IN
       /\ pos' = r.pos
       /\ currentToken' = r.tok
  /\ calls' = calls + 1
  /\ UNCHANGED <<source, prevPos, returned, nparse, lastOp, startPos, startTok,
                 outcome, ast, entries, lowered, printed, codegenVars, stepVars>>

\* auto ast = parser.parseExpression(); main has no handler, so an
\* exception leaves main uncaught and std::terminate aborts the process
MainParse ==
  /\ mainpc = "parse"
  /\ LET r == parseExpression(source, pos, currentToken) IN
       /\ mainpc' = IF r.status = "ok" THEN "generate" ELSE "terminate"
       /\ nparse' = nparse + 1
       /\ lastOp' = "parseExpression"
       /\ startPos' = pos
       /\ startTok' = currentToken
       /\ pos' = r.pos
       /\ currentToken' = r.cur
       /\ calls' = calls + r.calls
       /\ outcome' = r.status
       /\ ast' = r.node
       /\ entries' = r.entries
  /\ UNCHANGED <<source, prevPos, returned, parser, lowered, printed,
                 codegenVars, stepVars>>

\* CodeGen codeGen; codeGen.generate(ast.get());
MainGenerate ==
  /\ mainpc = "generate"
  /\ mainpc' = "print"
  /\ lowered' = TRUE
  /\ codegen' = TRUE
  /\ LET r == generate(ast, <<>>) IN
       /\ ir' = r.buf
       /\ irValue' = r.value
  /\ ngen' = 1
  /\ UNCHANGED <<lexerVars, parserVars, printed, stepVars>>

\* codeGen.printIR(); return 0;
MainPrintIR ==
  /\ mainpc = "print"
  /\ mainpc' = "exit0"
  /\ printed' = TRUE
  /\ UNCHANGED <<lexerVars, parserVars, lowered, codegenVars, stepVars>>

\* ------------------------------------------------------ a caller of CodeGen
\* CodeGen::CodeGen(): a new context with an empty module
CodeGenCtor ==
  /\ ~codegen
  /\ codegen' = TRUE
  /\ ir' = <<>>
  /\ UNCHANGED <<lexerVars, parserVars, mainVars, irValue, ngen, stepVars>>

\* codeGen.generate(node) on the tree the caller holds
Generate ==
  /\ codegen
  /\ ngen < MaxGenerate
  /\ LET r == generate(ast, ir) IN
       /\ ir' = r.buf
       /\ irValue' = r.value
  /\ ngen' = ngen + 1
  /\ UNCHANGED <<lexerVars, parserVars, mainVars, codegen, stepVars>>

\* --------------------------------------------------------- specifications
LexerNext == GetNextToken
ParserNext ==
  ParserCtor \/ ParseExpression \/ ParseIfStatement \/ ParseWhileStatement
MainNext ==
  MainStart \/ MainConstruct \/ MainParse \/ MainGenerate \/ MainPrintIR

SpecLexer == Init /\ [][LexerNext]_vars
SpecParser == Init /\ [][ParserNext]_vars
SpecMain == Init /\ [][MainNext]_vars

CodeGenNext == CodeGenCtor \/ Generate
SpecCodeGen == InitCodeGen /\ [][CodeGenNext]_vars

\* ------------------------------------- the parse methods, statement by
\* statement.  A frame is one activation of a parse method: pc is the line
\* of parsers.cpp it is at, a, b, c and op are its locals (left/condition,
\* right/thenBranch/body, elseBranch, op)
Frame(fn, pc) ==
  [fn |-> fn, pc |-> pc, a |-> NoNode, op |-> "", b |-> NoNode, c |-> NoNode]
Top == stack[Len(stack)]
SetTop(f) == [stack EXCEPT ![Len(stack)] = f]

\* the lines that are  currentToken = lexer.getNextToken();  and the line
\* reached after each
AdvancePc == {"E29", "E35", "I56", "I61", "I70", "W88", "W93"}
AfterAdvance(pc) ==
  CASE pc = "E29" -> "E32"
    [] pc = "E35" -> "E38"
    [] pc = "I56" -> "I59"
    [] pc = "I61" -> "I64"
    [] pc = "I70" -> "I71"
    [] pc = "W88" -> "W91"
    [] pc = "W93" -> "W96"

\* the lines that call parseExpression(), and the caller's frame once the
\* call has returned value
CallPc == {"E38", "I59", "I64", "I71", "W91", "W96"}
Resume(f, value) ==
  CASE f.pc = "E38" -> [f EXCEPT !.b = value, !.pc = "E39"]
    [] f.pc = "I59" -> [f EXCEPT !.a = value, !.pc = "I61"]
    [] f.pc = "I64" -> [f EXCEPT !.b = value, !.pc = "I69"]
    [] f.pc = "I71" -> [f EXCEPT !.c = value, !.pc = "I75"]
    [] f.pc = "W91" -> [f EXCEPT !.a = value, !.pc = "W93"]
    [] f.pc = "W96" -> [f EXCEPT !.b = value, !.pc = "W99"]

\* the return statements and the node each returns
ReturnPc == {"E39", "E43", "I75", "W99"}
ReturnValue(f) ==
  CASE f.pc = "E39" -> BinaryExpr(f.a, f.op, f.b)
    [] f.pc = "E43" -> f.a
    [] f.pc = "I75" -> IfStatement(f.a, f.b, f.c)
    [] f.pc = "W99" -> WhileStatement(f.a, f.b)

\* the parseExpression activations on top of the stack st, one inside the
\* other
RECURSIVE ExprDepth(_)
ExprDepth(st) ==
  IF st # <<>> /\ st[Len(st)].fn = "parseExpression"
    THEN 1 + ExprDepth(SubSeq(st, 1, Len(st) - 1))
    ELSE 0

\* a caller calls the parse method name, whose first line is pc
Start(name, pc) ==
  /\ parser
  /\ stack = <<>>
  /\ nparse < MaxRuns
  /\ nparse' = nparse + 1
  /\ stack' = <<Frame(name, pc)>>
  /\ lastOp' = name
  /\ startPos' = pos
  /\ startTok' = currentToken
  /\ startCalls' = calls
  /\ outcome' = "running"
  /\ ast' = NoNode
  /\ entries' = <<>>
  /\ UNCHANGED <<lexerVars, parser, currentToken, mainVars, codegenVars,
                 entryLog, ops>>

StartParseExpression == Start("parseExpression", "E26")
StartParseIfStatement == Start("parseIfStatement", "I56")
StartParseWhileStatement == Start("parseWhileStatement", "W88")

\* auto left = std::make_unique<NumberExpr>(std::stoi(currentToken.value));
\* an exception of stoi unwinds every frame up to the caller
Convert ==
  /\ stack # <<>>
  /\ Top.pc = "E26"
  /\ LET outermost == ExprDepth(stack) = 1
         seen == IF outermost THEN 0 ELSE ops
         entry == [pos |-> pos, depth |-> ExprDepth(stack), ops |-> seen]
         conv == stoi(currentToken.value)
     IN /\ entryLog' = IF outermost THEN <<entry>> ELSE Append(entryLog, entry)
        /\ ops' = seen
        /\ entries' = Append(entries, currentToken)
        /\ IF conv.status = "ok"
             THEN /\ stack' = SetTop([Top EXCEPT !.a = NumberExpr(conv.value),
                                                 !.pc = "E29"])
                  /\ UNCHANGED <<outcome, ast>>
             ELSE /\ stack' = <<>>
                  /\ outcome' = conv.status
                  /\ ast' = NoNode
  /\ UNCHANGED <<lexerVars, parser, currentToken, nparse, lastOp, startPos,
                 startTok, mainVars, codegenVars, startCalls>>

\* currentToken = lexer.getNextToken();  at line 35 the token replaced is
\* the operator
Advance ==
  /\ stack # <<>>
  /\ Top.pc \in AdvancePc
  /\ LET r == getNextToken(source, pos) IN
       /\ pos' = r.pos
       /\ currentToken' = r.tok
  /\ calls' = calls + 1
  /\ ops' = IF Top.pc = "E35" THEN ops + 1 ELSE ops
  /\ stack' = SetTop([Top EXCEPT !.pc = AfterAdvance(Top.pc)])
  /\ UNCHANGED <<source, prevPos, returned, parser, nparse, lastOp, startPos,
                 startTok, outcome, ast, entries, mainVars, codegenVars,
                 entryLog, startCalls>>

\* if (currentToken.type == TokenType::OPERATOR) { char op = ...value[0];
TestOperator ==
  /\ stack # <<>>
  /\ Top.pc = "E32"
  /\ stack' = SetTop(IF currentToken.type = "OPERATOR"
                       THEN [Top EXCEPT !.op = currentToken.value[1],
                                        !.pc = "E35"]
                       ELSE [Top EXCEPT !.pc = "E43"])
  /\ UNCHANGED <<lexerVars, parserVars, mainVars, codegenVars, entryLog, ops,
                 startCalls>>

\* if (currentToken.type == TokenType::ELSE)
TestElse ==
  /\ stack # <<>>
  /\ Top.pc = "I69"
  /\ stack' = SetTop(IF currentToken.type = "ELSE"
                       THEN [Top EXCEPT !.pc = "I70"]
                       ELSE [Top EXCEPT !.pc = "I75"])
  /\ UNCHANGED <<lexerVars, parserVars, mainVars, codegenVars, entryLog, ops,
                 startCalls>>

\* parseExpression()  is called: a new activation at its first line
CallExpression ==
  /\ stack # <<>>
  /\ Top.pc \in CallPc
  /\ stack' = Append(stack, Frame("parseExpression", "E26"))
  /\ UNCHANGED <<lexerVars, parserVars, mainVars, codegenVars, entryLog, ops,
                 startCalls>>

\* a return statement: the node goes to the calling activation, or to the
\* caller of the parse method
Return ==
  /\ stack # <<>>
  /\ Top.pc \in ReturnPc
  /\ IF Len(stack) = 1
       THEN /\ stack' = <<>>
            /\ outcome' = "ok"
            /\ ast' = ReturnValue(Top)
       ELSE /\ stack' = Append(SubSeq(stack, 1, Len(stack) - 2),
                               Resume(stack[Len(stack) - 1], ReturnValue(Top)))
            /\ UNCHANGED <<outcome, ast>>
  /\ UNCHANGED <<lexerVars, parser, currentToken, nparse, lastOp, startPos,
                 startTok, entries, mainVars, codegenVars, entryLog, ops,
                 startCalls>>

\* the sources of the step-by-step runs, nothing constructed but the Lexer
InitSteps ==
  /\ source \in StepSources
  /\ pos = 0
  /\ calls = 0
  /\ prevPos = 0
  /\ returned = <<>>
  /\ parser = FALSE
  /\ currentToken = NoToken
  /\ nparse = 0
  /\ lastOp = "none"
  /\ startPos = 0
  /\ startTok = NoToken
  /\ outcome = "none"
  /\ ast = NoNode
  /\ entries = <<>>
  /\ mainpc = "start"
  /\ lowered = FALSE
  /\ printed = FALSE
  /\ codegen = FALSE
  /\ ir = <<>>
  /\ irValue = NullValue
  /\ ngen = 0
  /\ stack = <<>>
  /\ entryLog = <<>>
  /\ ops = 0
  /\ startCalls = 0

\* one statement of the running parse method
ParserStep ==
  Convert \/ Advance \/ TestOperator \/ TestElse \/ CallExpression \/ Return

StepsNext ==
  \/ ParserCtor
  \/ StartParseExpression
  \/ StartParseIfStatement
  \/ StartParseWhileStatement
  \/ ParserStep

\* the program is sequential: a parse method that has a next statement
\* executes it
SpecParserSteps == InitSteps /\ [][StepsNext]_vars /\ WF_vars(ParserStep)


\* ------------------------------------------------- properties of the Lexer
\* where the latest direct call found its first non-whitespace character
TokenStart ==
  IF prevPos < Len(source) /\ isspace(source[prevPos + 1])
    THEN CHOOSE q \in (prevPos + 1)..Len(source) :
           /\ \A k \in prevPos..(q - 1) : isspace(source[k + 1])
           /\ q < Len(source) => ~isspace(source[q + 1])
    ELSE prevPos
\* that character, NUL at the end of the source
FirstChar == CharAt(source, TokenStart)
Called == returned # <<>>
EndToken == Token("END", <<>>)

\* C1: a getNextToken call that returns a token other than END leaves pos
\* just past the text of that token, whatever the kind of the token
C1_TokenAdvancesPos ==
  (Called /\ LastTok.type # "END") =>
    /\ pos = TokenStart + Len(LastTok.value)
    /\ LastTok.value = Text(source, TokenStart, pos)

\* a call made after a call that returned END: it returns END with an empty
\* text and leaves pos where it was
C2_EndStep ==
  (Called /\ LastTok.type = "END" /\ returned' # returned) =>
    (LastTok' = EndToken /\ pos' = pos)

\* C2: once a call has returned END, every later call returns END with an
\* empty text and leaves pos where it was; on the empty source every call
\* returns END
C2_EndAbsorbing ==
  /\ [][C2_EndStep]_vars
  /\ [](source = <<>> => \A i \in 1..Len(returned) : returned[i] = EndToken)
\* two calls after an unrecognized character, both answered END
C2_Witness ==
  /\ Len(returned) >= 2
  /\ returned[Len(returned) - 1].type = "END"
  /\ LastTok = EndToken
  /\ pos < Len(source)

\* the word w stands at the first non-whitespace position as a whole word
WordAtStart(w) ==
  /\ Text(source, TokenStart, TokenStart + Len(w)) = w
  /\ ~isalnum(CharAt(source, TokenStart + Len(w)))
ControlWords ==
  {<<"i", "f">>, <<"e", "l", "s", "e">>, <<"w", "h", "i", "l", "e">>}

\* C7: no returned token has the kind IF, ELSE or WHILE; the words if, else
\* and while come back as IDENTIFIER tokens carrying the word
C7_NoControlKeywords ==
  /\ \A i \in 1..Len(returned) : returned[i].type \notin {"IF", "ELSE", "WHILE"}
  /\ \A w \in ControlWords :
       (Called /\ TokenStart + Len(w) <= Len(source) /\ WordAtStart(w))
         => LastTok = Token("IDENTIFIER", w)
C7_Witness ==
  returned = <<Token("IDENTIFIER", <<"i", "f">>),
               Token("IDENTIFIER", <<"e", "l", "s", "e">>),
               Token("IDENTIFIER", <<"w", "h", "i", "l", "e">>)>>

\* C8: when the first non-whitespace character is a letter, the token text
\* is the maximal run of letters and digits from there, and the kind is INT
\* iff the run is int, RETURN iff it is return, IDENTIFIER otherwise
C8_IdentifierRun ==
  (Called /\ isalpha(FirstChar)) =>
    /\ pos > TokenStart /\ pos <= Len(source)
    /\ LastTok.value = Text(source, TokenStart, pos)
    /\ \A k \in TokenStart..(pos - 1) : isalnum(source[k + 1])
    /\ ~isalnum(CharAt(source, pos))
    /\ LastTok.type = "INT" <=> LastTok.value = <<"i", "n", "t">>
    /\ LastTok.type = "RETURN" <=> LastTok.value = <<"r", "e", "t", "u", "r", "n">>
    /\ LastTok.type \in {"INT", "RETURN", "IDENTIFIER"}
\* int as a keyword, then a run of a letter and a digit as one identifier
C8_Witness ==
  /\ Len(returned) = 2
  /\ returned[1] = Token("INT", <<"i", "n", "t">>)
  /\ returned[2] = Token("IDENTIFIER", <<"x", "1">>)

\* C9: when the first non-whitespace character is a digit, the token is a
\* NUMBER whose text is the maximal run of digits from there, pos ends just
\* after the run and never beyond the end of the source
C9_NumberRun ==
  (Called /\ isdigit(FirstChar)) =>
    /\ LastTok.type = "NUMBER"
    /\ pos > TokenStart /\ pos <= Len(source)
    /\ LastTok.value = Text(source, TokenStart, pos)
    /\ \A k \in TokenStart..(pos - 1) : isdigit(source[k + 1])
    /\ ~isdigit(CharAt(source, pos))
\* a run of several digits that ends exactly at the end of the source
C9_Witness ==
  /\ LastTok.type = "NUMBER"
  /\ Len(LastTok.value) >= 2
  /\ pos = Len(source)
  /\ TokenStart > 0

DedicatedKind(c) ==
  CASE c = "(" -> "PAREN_OPEN" [] c = ")" -> "PAREN_CLOSE"
    [] c = "{" -> "BRACE_OPEN" [] c = "}" -> "BRACE_CLOSE"
    [] c = ";" -> "SEMICOLON"

\* C10: each of + - * / yields one OPERATOR token holding that character and
\* is stepped over; each of ( ) { } ; yields the token of its own kind
\* holding that character; none of the nine yields END or a longer text
C10_SymbolTokens ==
  /\ (Called /\ FirstChar \in Operators) =>
       (LastTok = Token("OPERATOR", <<FirstChar>>) /\ pos = TokenStart + 1)
  /\ (Called /\ FirstChar \in Punctuation) =>
       LastTok = Token(DedicatedKind(FirstChar), <<FirstChar>>)
\* an operator and then a punctuation mark right behind it
C10_Witness ==
  /\ Len(returned) = 2
  /\ returned[1].type = "OPERATOR"
  /\ returned[2].type \in
       {"PAREN_OPEN", "PAREN_CLOSE", "BRACE_OPEN", "BRACE_CLOSE", "SEMICOLON"}
  /\ prevPos = TokenStart


\* a character that starts no token and is not white space
Unrecognized(c) ==
  /\ ~isspace(c) /\ ~isdigit(c) /\ ~isalpha(c)
  /\ c \notin Operators /\ c \notin Punctuation

\* C11: every getNextToken call returns a token of a declared kind; when the
\* first non-whitespace character is not a digit, a letter or one of
\* + - * / ( ) { } ; the call returns END, and pos never passes an
\* unrecognized character, so no later call returns a token from behind it
C11_UnrecognizedEndsStream ==
  /\ \A i \in 1..Len(returned) : returned[i].type \in TokenType
  /\ (Called /\ TokenStart < Len(source) /\ Unrecognized(FirstChar)) =>
       (LastTok = EndToken /\ pos = TokenStart)
  /\ \A u \in 0..(Len(source) - 1) : Unrecognized(source[u + 1]) => pos <= u
\* a token, then END twice at an unrecognized character with a number behind
C11_Witness ==
  /\ Len(returned) = 3
  /\ returned[1].type = "NUMBER"
  /\ returned[2] = EndToken
  /\ returned[3] = EndToken
  /\ Unrecognized(CharAt(source, pos))
  /\ \E k \in (pos + 1)..(Len(source) - 1) : isdigit(source[k + 1])

\* C19: on every source, END is returned within length(source) + 1 calls
C19_EndWithinLengthPlusOne ==
  Len(returned) >= Len(source) + 1 =>
    \E i \in 1..(Len(source) + 1) : returned[i].type = "END"

\* ------------------------------------------------ properties of the Parser
\* the first parse method call on a new Parser was parseExpression
FirstParseExpression == parser /\ nparse = 1 /\ lastOp = "parseExpression"

\* the end of the run of digits that starts at 1-based index i
RECURSIVE RunEnd(_, _)
RunEnd(src, i) ==
  IF i <= Len(src) /\ src[i] \in Digits THEN RunEnd(src, i + 1) ELSE i

\* the source cut into numerals (runs of digits) and single other
\* characters, white space dropped
RECURSIVE Items(_, _)
Items(src, i) ==
  IF i > Len(src) THEN <<>>
  ELSE IF isspace(src[i]) THEN Items(src, i + 1)
  ELSE IF src[i] \in Digits
    THEN <<SubSeq(src, i, RunEnd(src, i) - 1)>> \o Items(src, RunEnd(src, i))
  ELSE <<<<src[i]>>>> \o Items(src, i + 1)

\* the source has the form n1 op1 n2 ... nk, k >= 1
IsChain(src) ==
  LET it == Items(src, 1) IN
  /\ Len(it) % 2 = 1
  /\ \A i \in 1..Len(it) :
       IF i % 2 = 1 THEN it[i][1] \in Digits ELSE it[i][1] \in Operators

\* a numeral without its leading zeros
RECURSIVE StripZeros(_)
StripZeros(d) ==
  IF Len(d) > 1 /\ d[1] = "0" THEN StripZeros(Tail(d)) ELSE d

\* d <= e for numerals of the same length
RECURSIVE NumeralLeq(_, _)
NumeralLeq(d, e) ==
  IF d = <<>> THEN TRUE
  ELSE IF d[1] # e[1] THEN DigitVal(d[1]) < DigitVal(e[1])
  ELSE NumeralLeq(Tail(d), Tail(e))

IntMaxNumeral == <<"2", "1", "4", "7", "4", "8", "3", "6", "4", "7">>

\* the integer the numeral denotes is at most INT_MAX
FitsInt(d) ==
  LET z == StripZeros(d) IN
  \/ Len(z) < Len(IntMaxNumeral)
  \/ Len(z) = Len(IntMaxNumeral) /\ NumeralLeq(z, IntMaxNumeral)

\* the integer a numeral denotes, for a numeral that fits
RECURSIVE DecimalValue(_)
DecimalValue(d) ==
  IF d = <<>> THEN 0
  ELSE 10 * DecimalValue(SubSeq(d, 1, Len(d) - 1)) + DigitVal(d[Len(d)])

\* BinaryExpr(n_i, op_i, BinaryExpr(n_i+1, ...)) over the items from i on
RECURSIVE RightNested(_, _)
RightNested(it, i) ==
  IF i = Len(it) THEN NumberExpr(DecimalValue(it[i]))
  ELSE BinaryExpr(NumberExpr(DecimalValue(it[i])), it[i + 1][1],
                  RightNested(it, i + 2))

\* node is right-nested over the operators of the items from i on: a
\* NumberExpr for the last numeral, else a BinaryExpr with a NumberExpr left
RECURSIVE HasRightNestedShape(_, _, _)
HasRightNestedShape(node, it, i) ==
  IF i = Len(it) THEN node.kind = "NumberExpr"
  ELSE /\ node.kind = "BinaryExpr"
       /\ node.left.kind = "NumberExpr"
       /\ node.op = it[i + 1][1]
       /\ HasRightNestedShape(node.right, it, i + 2)

\* C3 as stated: on every source n1 op1 n2 ... nk parseExpression returns
\* the right-nested tree, whatever the numbers and the operators
C3_RightNestedAnyNumbers ==
  (FirstParseExpression /\ IsChain(source)) =>
    /\ outcome = "ok"
    /\ HasRightNestedShape(ast, Items(source, 1), 1)

\* C3: on every source n1 op1 n2 ... nk whose numbers are at most INT_MAX,
\* parseExpression returns BinaryExpr(n1, op1, BinaryExpr(n2, op2, ... nk)),
\* whatever the operators; every left child is a NumberExpr
C3_RightNested ==
  LET it == Items(source, 1) IN
  (/\ FirstParseExpression
   /\ IsChain(source)
   /\ \A i \in 1..Len(it) : i % 2 = 1 => FitsInt(it[i])) =>
    /\ outcome = "ok"
    /\ ast = RightNested(it, 1)
    /\ HasRightNestedShape(ast, it, 1)
\* three numbers and two different operators
C3_Witness ==
  /\ FirstParseExpression
  /\ Len(Items(source, 1)) = 5
  /\ ast.kind = "BinaryExpr"
  /\ ast.right.kind = "BinaryExpr"
  /\ ast.op # ast.right.op

\* the source is one non-empty run of digits
IsNumeral(src) == src # <<>> /\ \A i \in 1..Len(src) : src[i] \in Digits

\* C4 as stated: on every source that is one run of digits, of any length,
\* parseExpression returns a NumberExpr holding the integer it denotes
C4_AnyLengthNumber ==
  (FirstParseExpression /\ IsNumeral(source)) =>
    /\ outcome = "ok"
    /\ ast = NumberExpr(DecimalValue(source))

\* C4: on a source that is one run of digits, parseExpression returns a
\* NumberExpr holding the integer the digits denote when that integer is at
\* most INT_MAX, leading zeros or not; beyond INT_MAX it throws
\* std::out_of_range and returns no node
C4_NumberValue ==
  (FirstParseExpression /\ IsNumeral(source)) =>
    IF FitsInt(source)
      THEN outcome = "ok" /\ ast = NumberExpr(DecimalValue(source))
      ELSE outcome = "out_of_range" /\ ast = NoNode
\* several digits with leading zeros
C4_Witness ==
  /\ FirstParseExpression
  /\ IsNumeral(source)
  /\ Len(source) >= 3
  /\ source[1] = "0"
  /\ ast.kind = "NumberExpr"
  /\ ast.value > 0

\* C5: when a parse method call enters parseExpression, at the top or for a
\* right operand, with a current token that is not a NUMBER, the call fails
\* with MalformedExpression and returns no node
C5_NonNumberFails ==
  (nparse > 0 /\ \E i \in 1..Len(entries) : entries[i].type # "NUMBER") =>
    /\ outcome = MalformedExpression
    /\ ast = NoNode
    /\ entries[Len(entries)].type # "NUMBER"
    /\ currentToken = entries[Len(entries)]
\* a dangling operator: the right operand is entered at the end of input
C5_Witness ==
  /\ lastOp = "parseExpression"
  /\ Len(entries) = 2
  /\ entries[1].type = "NUMBER"
  /\ entries[2] = EndToken
  /\ outcome = MalformedExpression

\* -------------------------------------------------- properties of main()
\* C6: a MalformedExpression raised in main does not abort the process: the
\* run ends by returning 1, and nothing is lowered or printed
C6_MainReturnsOne ==
  (mainpc \notin {"start", "construct", "parse"}
     /\ outcome = MalformedExpression) =>
    /\ mainpc = "exit1"
    /\ ~lowered
    /\ ~printed


\* ----------------------------------------- one-token lookahead, statements
\* the result of the n-th getNextToken call on a new lexer over src, n >= 1
RECURSIVE NthCall(_, _)
NthCall(src, n) ==
  IF n = 1 THEN getNextToken(src, 0)
  ELSE Only({getNextToken(src, before.pos) : before \in {NthCall(src, n - 1)}})

\* the tokens a tree is built from: its numbers and its operators
RECURSIVE NodeTokens(_)
NodeTokens(node) ==
  IF node.kind = "BinaryExpr"
    THEN NodeTokens(node.left) + 1 + NodeTokens(node.right)
    ELSE 1

\* the tokens a successful parse method call consumes, from what it returns:
\* the tokens of the trees, the token skipped before the condition, the one
\* skipped after it, and the else token before an else branch
TokensConsumed(name, node) ==
  IF name = "parseExpression" THEN NodeTokens(node)
  ELSE IF name = "parseWhileStatement"
    THEN 2 + NodeTokens(node.condition) + NodeTokens(node.body)
  ELSE 2 + NodeTokens(node.condition) + NodeTokens(node.thenBranch)
         + (IF node.elseBranch = NoNode THEN 0
            ELSE 1 + NodeTokens(node.elseBranch))

\* a step that constructs the Parser makes one getNextToken call; a parse
\* method call that succeeds makes one call per token it consumes
C12_Step ==
  /\ (~parser /\ parser') => calls' = calls + 1
  /\ (nparse' = nparse + 1 /\ outcome' = "ok") =>
       calls' = calls + TokensConsumed(lastOp', ast')

\* C12: the Parser constructor calls getNextToken once; every successful
\* parse call then adds one call per token consumed, so the calls made are
\* the tokens consumed plus one; currentToken is always the latest token of
\* the scanner's stream and pos is where that call left it
C12_OneTokenLookahead ==
  /\ [][C12_Step]_vars
  /\ [](IF parser
          THEN /\ currentToken = NthCall(source, calls).tok
               /\ pos = NthCall(source, calls).pos
          ELSE calls = 0)
\* two successful parseExpression calls on the source of two numbers
C12_Witness ==
  /\ nparse = 2
  /\ lastOp = "parseExpression"
  /\ outcome = "ok"
  /\ ast.kind = "NumberExpr"
  /\ startTok.type = "NUMBER"
  /\ startPos > 0
  /\ calls = 3
  /\ currentToken = EndToken

\* the end of the run of letters and digits that starts at 1-based index i
RECURSIVE WordEnd(_, _)
WordEnd(src, i) ==
  IF i <= Len(src) /\ isalnum(src[i]) THEN WordEnd(src, i + 1) ELSE i

\* the source cut into numerals, words that start with a letter and single
\* other characters, white space dropped
RECURSIVE Words(_, _)
Words(src, i) ==
  IF i > Len(src) THEN <<>>
  ELSE IF isspace(src[i]) THEN Words(src, i + 1)
  ELSE IF src[i] \in Digits
    THEN <<SubSeq(src, i, RunEnd(src, i) - 1)>> \o Words(src, RunEnd(src, i))
  ELSE IF isalpha(src[i])
    THEN <<SubSeq(src, i, WordEnd(src, i) - 1)>> \o Words(src, WordEnd(src, i))
  ELSE <<<<src[i]>>>> \o Words(src, i + 1)

IsNumeralWord(w) == w[1] \in Digits
IsOperatorWord(w) == w[1] \in Operators

\* the length of the longest n1 op1 n2 ... nk that starts at item i, 0 if none
RECURSIVE ChainLen(_, _)
ChainLen(ws, i) ==
  IF i > Len(ws) \/ ~IsNumeralWord(ws[i]) THEN 0
  ELSE IF i + 2 <= Len(ws) /\ IsOperatorWord(ws[i + 1])
            /\ IsNumeralWord(ws[i + 2])
    THEN 2 + ChainLen(ws, i + 2)
  ELSE 1

\* the source has the shape K C D T: one token K, an expression C, one token
\* D that is not an operator, and an expression T up to the end
IsKCDT(src) ==
  LET ws == Words(src, 1)
      c == ChainLen(ws, 2)
      t == ChainLen(ws, c + 3)
  IN /\ \A i \in 1..Len(ws) : ~Unrecognized(ws[i][1])
     /\ c > 0
     /\ Len(ws) >= c + 3
     /\ ~IsOperatorWord(ws[c + 2])
     /\ t > 0
     /\ c + 2 + t = Len(ws)
ConditionOf(src) ==
  LET ws == Words(src, 1) IN SubSeq(ws, 2, 1 + ChainLen(ws, 2))
BodyOf(src) ==
  LET ws == Words(src, 1) IN SubSeq(ws, ChainLen(ws, 2) + 3, Len(ws))

FirstParseIs(name) == parser /\ nparse = 1 /\ lastOp = name

\* C13: on a source K C D T, D being any one token, the brace { included,
\* parseIfStatement returns IfStatement(tree of C, tree of T, no else branch)
C13_IfStatementOnKCDT ==
  (FirstParseIs("parseIfStatement") /\ IsKCDT(source)) =>
    /\ outcome = "ok"
    /\ ast = IfStatement(RightNested(ConditionOf(source), 1),
                         RightNested(BodyOf(source), 1), NoNode)

\* C14: on a source K C D B, D being any one token, the brace { included,
\* parseWhileStatement returns WhileStatement(tree of C, tree of B)
C14_WhileStatementOnKCDB ==
  (FirstParseIs("parseWhileStatement") /\ IsKCDT(source)) =>
    /\ outcome = "ok"
    /\ ast = WhileStatement(RightNested(ConditionOf(source), 1),
                            RightNested(BodyOf(source), 1))

\* every mandatory child is present, down to the leaves; only the else
\* branch of an IfStatement may be absent; every operator is one of + - * /
RECURSIVE WellFormed(_)
WellFormed(node) ==
  CASE node.kind = "NumberExpr" -> node.value \in Int
    [] node.kind = "BinaryExpr" ->
         /\ node.op \in Operators
         /\ WellFormed(node.left)
         /\ WellFormed(node.right)
    [] node.kind = "IfStatement" ->
         /\ WellFormed(node.condition)
         /\ WellFormed(node.thenBranch)
         /\ node.elseBranch = NoNode \/ WellFormed(node.elseBranch)
    [] node.kind = "WhileStatement" ->
         /\ WellFormed(node.condition)
         /\ WellFormed(node.body)
    [] OTHER -> FALSE

\* C15: a parse method call that succeeds returns a tree whose nodes all have
\* their mandatory children, with operators among + - * /; a call in which a
\* sub-parse fails returns no node at all
C15_WellFormedOrNothing ==
  nparse > 0 => IF outcome = "ok" THEN WellFormed(ast) ELSE ast = NoNode
\* an IfStatement without else branch over a BinaryExpr condition
C15_Witness ==
  /\ outcome = "ok"
  /\ ast.kind = "IfStatement"
  /\ ast.elseBranch = NoNode
  /\ ast.condition.kind = "BinaryExpr"
  /\ ast.thenBranch.kind = "BinaryExpr"

\* the source starts with n1 op1 ... nk and what follows, if anything, is
\* not an operator
StartsWithChain(src) ==
  LET ws == Words(src, 1)
      c == ChainLen(ws, 1)
  IN c > 0 /\ (c < Len(ws) => ~IsOperatorWord(ws[c + 1]))
LeadingChain(src) ==
  LET ws == Words(src, 1) IN SubSeq(ws, 1, ChainLen(ws, 1))

\* what parseExpression leaves behind after the leading chain: the tree of
\* the chain, the token that follows as currentToken, nothing read beyond it
StopsAfterChain ==
  LET ws == Words(source, 1)
      c == ChainLen(ws, 1)
  IN /\ outcome = "ok"
     /\ ast = RightNested(LeadingChain(source), 1)
     /\ calls = c + 1
     /\ currentToken = NthCall(source, c + 1).tok
     /\ currentToken.type # "OPERATOR"
     /\ IF c < Len(ws) /\ ~Unrecognized(ws[c + 1][1])
          THEN currentToken.value = ws[c + 1]
          ELSE currentToken = EndToken

\* C16 as stated: whatever the numbers, parseExpression returns the tree of
\* the leading Number (Operator Number)* when no operator follows it
C16_StopsAfterAnyChain ==
  (FirstParseIs("parseExpression") /\ StartsWithChain(source)) =>
    StopsAfterChain

\* C16: when the numbers of the leading Number (Operator Number)* are at
\* most INT_MAX and the token after it is not an operator, parseExpression
\* returns the tree of that prefix without error, leaves the following
\* token as currentToken and asks the scanner for no token after it
C16_StopsAfterChain ==
  (/\ FirstParseIs("parseExpression")
   /\ StartsWithChain(source)
   /\ \A i \in 1..Len(LeadingChain(source)) :
        i % 2 = 1 => FitsInt(LeadingChain(source)[i])) =>
    StopsAfterChain
\* 5 ) + 3: the tree is the number, the parenthesis stays the current token
C16_Witness ==
  /\ FirstParseIs("parseExpression")
  /\ ast.kind = "NumberExpr"
  /\ currentToken.type = "PAREN_CLOSE"
  /\ Len(Words(source, 1)) = 4
  /\ calls = 2

\* C20: an IfStatement returned by parseIfStatement has no else branch, and
\* the current token never has the kind ELSE, also where the word else and
\* an expression follow the then branch
C20_NoElseBranch ==
  /\ currentToken.type # "ELSE"
  /\ (lastOp = "parseIfStatement" /\ outcome = "ok") =>
       (ast.kind = "IfStatement" /\ ast.elseBranch = NoNode)
\* the then branch is followed by the word else and a number
C20_Witness ==
  /\ lastOp = "parseIfStatement"
  /\ outcome = "ok"
  /\ currentToken = Token("IDENTIFIER", <<"e", "l", "s", "e">>)
  /\ isdigit(CharAt(source, pos + 1))



\* ------------------------------------------------------------- the lowering
\* a tree made only of NumberExpr nodes and '+' BinaryExpr nodes
RECURSIVE PlusTree(_)
PlusTree(node) ==
  \/ node.kind = "NumberExpr"
  \/ /\ node.kind = "BinaryExpr"
     /\ node.op = "+"
     /\ PlusTree(node.left)
     /\ PlusTree(node.right)

\* the number of BinaryExpr nodes of a tree
RECURSIVE CountBinary(_)
CountBinary(node) ==
  IF node.kind = "BinaryExpr"
    THEN CountBinary(node.left) + CountBinary(node.right) + 1
    ELSE 0

\* the tree an IR value computes, read back from the instructions of buf
RECURSIVE Decode(_, _)
Decode(buf, v) ==
  IF v.kind = "constant" THEN NumberExpr(v.value)
  ELSE IF v.kind = "instruction"
    THEN BinaryExpr(Decode(buf, buf[v.index].lhs), "+",
                    Decode(buf, buf[v.index].rhs))
  ELSE NoNode

IsPrefix(s, t) == Len(s) <= Len(t) /\ SubSeq(t, 1, Len(s)) = s

\* an operand of the instruction at place i is a constant or the result of
\* an earlier instruction
EarlierOperand(v, i) ==
  \/ v.kind = "constant"
  \/ v.kind = "instruction" /\ v.index \in 1..(i - 1)

\* the instructions of the right operand end just before place i, and those
\* of the left operand end just before the right operand's begin
LeftThenRight(buf, i) ==
  LET rightSize == CountBinary(Decode(buf, buf[i].rhs)) IN
  /\ buf[i].rhs.kind = "instruction" => buf[i].rhs.index = i - 1
  /\ buf[i].lhs.kind = "instruction" => buf[i].lhs.index = i - 1 - rightSize

\* the first generate call of a CodeGen on a tree of numbers and '+' leaves
\* one add per BinaryExpr, children before parents and left before right,
\* and returns the value that computes the tree
C17_FirstLowering ==
  (ngen = 1 /\ PlusTree(ast)) =>
    /\ Len(ir) = CountBinary(ast)
    /\ \A i \in 1..Len(ir) :
         /\ ir[i].opcode = "add"
         /\ EarlierOperand(ir[i].lhs, i)
         /\ EarlierOperand(ir[i].rhs, i)
         /\ LeftThenRight(ir, i)
    /\ ast.kind = "NumberExpr" => irValue = ConstantInt(ast.value)
    /\ ast.kind = "BinaryExpr" => irValue = InstValue(Len(ir))
    /\ Decode(ir, irValue) = ast
    /\ ast = BinaryExpr(NumberExpr(5), "+", NumberExpr(3)) =>
         ir = <<AddInst(ConstantInt(5), ConstantInt(3))>>

\* C17: lowering a tree of NumberExpr and '+' BinaryExpr nodes gives each
\* number the constant of its stored value, lowers the left child of a
\* BinaryExpr completely before the right one and then appends one add of
\* the two lowered values, so the instructions are one per BinaryExpr in
\* post-order; no step removes or changes an instruction already there; and
\* 5 + 3 gives one add of the constants 5 and 3
C17_LoweringAppendsPostOrder ==
  /\ []C17_FirstLowering
  /\ [][IsPrefix(ir, ir')]_vars

\* a tree with a BinaryExpr on both sides has been lowered, and once more
\* after that into the same module
C17_Witness ==
  /\ ngen = 2
  /\ PlusTree(ast)
  /\ ast.kind = "BinaryExpr"
  /\ ast.left.kind = "BinaryExpr"
  /\ ast.right.kind = "BinaryExpr"
  /\ Len(ir) = 6


\* ---------------------------------------------------- the Lexer's position
\* the latest direct call stepped over white space only before its token:
\* the token's text lies in the source at some s, the characters from the
\* old pos to s are white space, and the new pos is not past that text
OnlyWhitespaceSkipped ==
  \E s \in prevPos..pos :
    /\ \A k \in prevPos..(s - 1) : isspace(source[k + 1])
    /\ s + Len(LastTok.value) <= Len(source)
    /\ Text(source, s, s + Len(LastTok.value)) = LastTok.value
    /\ pos <= s + Len(LastTok.value)

\* C22: after any sequence of getNextToken calls pos is between 0 and the
\* length of the source, no call lowers pos, and the characters a call
\* passes before its token are all white space, so no other character of
\* the source is dropped between two tokens
C22_PosWithinSource ==
  /\ 0 <= pos
  /\ pos <= Len(source)
  /\ Called => (prevPos <= pos /\ OnlyWhitespaceSkipped)
\* a token other than END, white space, and another token other than END
C22_Witness ==
  /\ Len(returned) >= 2
  /\ returned[Len(returned) - 1].type # "END"
  /\ LastTok.type # "END"
  /\ prevPos < Len(source)
  /\ isspace(source[prevPos + 1])
  /\ prevPos < pos


\* ------------------------------------------- failure at the leading token
\* the step is a parseExpression call made with a current token that is not
\* a NUMBER
LeadingTokenFailureStep ==
  /\ nparse' = nparse + 1
  /\ lastOp' = "parseExpression"
  /\ currentToken.type # "NUMBER"

\* such a call fails without a getNextToken call and without a change of
\* currentToken or pos
C23_Step ==
  LeadingTokenFailureStep =>
    /\ outcome' = MalformedExpression
    /\ ast' = NoNode
    /\ calls' = calls
    /\ currentToken' = currentToken
    /\ pos' = pos

\* a parseExpression call that follows one that failed at its leading token
\* fails as that one did and leaves the same state
C23_AgainStep ==
  (/\ nparse' = nparse + 1
   /\ lastOp' = "parseExpression"
   /\ lastOp = "parseExpression"
   /\ startTok.type # "NUMBER"
   /\ nparse > 0) =>
    /\ outcome' = outcome
    /\ outcome' = MalformedExpression
    /\ ast' = NoNode
    /\ calls' = calls
    /\ currentToken' = startTok
    /\ pos' = startPos

\* C23: a top-level parseExpression call whose current token is not a NUMBER
\* fails without calling getNextToken, so currentToken and pos are what
\* they were before the call, and a further parseExpression call fails in
\* the same way
C23_LeadingFailureKeepsState ==
  /\ [][C23_Step]_vars
  /\ [][C23_AgainStep]_vars
\* two parseExpression calls in a row have failed on a leading identifier:
\* only the constructor has called getNextToken
C23_Witness ==
  /\ nparse = 2
  /\ lastOp = "parseExpression"
  /\ outcome = MalformedExpression
  /\ startTok.type = "IDENTIFIER"
  /\ currentToken = startTok
  /\ calls = 1
  /\ pos = startPos


\* ------------------------------------------- termination of the Parser
\* no parse method call is running, and one has run
Finished == stack = <<>> /\ nparse > 0

\* what the parse method called last leaves when taken as one step
WholeCall ==
  IF lastOp = "parseExpression" THEN parseExpression(source, startPos, startTok)
  ELSE IF lastOp = "parseIfStatement"
    THEN parseIfStatement(source, startPos, startTok)
  ELSE parseWhileStatement(source, startPos, startTok)

\* the statement-by-statement run of a parse method ends as the method
\* taken as one step does
StepsAgreeWithWholeCall ==
  Finished =>
    /\ outcome = WholeCall.status
    /\ ast = WholeCall.node
    /\ pos = WholeCall.pos
    /\ currentToken = WholeCall.cur
    /\ calls - startCalls = WholeCall.calls
    /\ entries = WholeCall.entries

\* the getNextToken calls one parse method call may make on the source
CallBound == 2 * Len(source) + 4

\* the parseExpression recursion that runs or ran last: the i-th entry is i
\* activations deep and has consumed i - 1 operators, each entry after the
\* first is at a greater pos than the one before, and once the call is over
\* the operators consumed are the recursive entries made
RecursionAdvances ==
  /\ \A i \in 1..Len(entryLog) :
       /\ entryLog[i].depth = i
       /\ entryLog[i].ops = i - 1
       /\ i > 1 => entryLog[i].pos > entryLog[i - 1].pos
  /\ (stack = <<>> /\ entryLog # <<>>) => ops = Len(entryLog) - 1

\* a parse method never makes more than CallBound getNextToken calls
CallsBounded == nparse > 0 => calls - startCalls <= CallBound

\* every parse method call that has begun comes to its end
Terminates == (stack # <<>>) ~> (stack = <<>>)

\* a call that is over has ended in one of the given ways, with a node
\* exactly when it returned
EndsIn(ways) ==
  Finished => (outcome \in ways /\ (outcome = "ok" <=> ast # NoNode))

\* C21 as stated: on every source each parse method call terminates, with a
\* node or with MalformedExpression, after at most CallBound getNextToken
\* calls; the recursion depth of parseExpression is the number of OPERATOR
\* tokens it consumes and pos advances before every recursive entry
C21_TerminatesOkOrMalformed ==
  /\ Terminates
  /\ []EndsIn({"ok", MalformedExpression})
  /\ []CallsBounded
  /\ []RecursionAdvances

\* C21, amended: on every source each parse method call terminates, with a
\* node, with MalformedExpression or, at a number above INT_MAX, with the
\* out-of-range failure of the conversion, after at most CallBound
\* getNextToken calls; the recursion depth of parseExpression is the number
\* of OPERATOR tokens it consumes and pos is greater at every recursive
\* entry than at the entry before, also on sources with ( ) { } ;
C21_ParserTerminates ==
  /\ Terminates
  /\ []EndsIn({"ok", MalformedExpression, "out_of_range"})
  /\ []CallsBounded
  /\ []RecursionAdvances
\* a parseIfStatement call has ended at a parenthesis that the lexer never
\* passes, after a condition two activations deep
C21_Witness ==
  /\ Finished
  /\ lastOp = "parseIfStatement"
  /\ outcome = MalformedExpression
  /\ currentToken.type = "PAREN_OPEN"
  /\ calls - startCalls = 5
  /\ Len(entries) = 3
  /\ entries[3].type = "PAREN_OPEN"
  /\ Len(entryLog) = 1
  /\ ops = 0

====
